---- MODULE Spec2Model ----
(***************************************************************************)
(* A model of the radiopds4 label generator: the line-oriented template    *)
(* engine (src/src/pds4/template.py, class XML_Template) and the           *)
(* multi-segment layout assembly that drives it (src/scripts/pds4.trk234.py*)
(* class Label).                                                           *)
(*                                                                         *)
(* A Python str is modelled as a sequence of one-character strings, a      *)
(* document (XML_Template.data) as a sequence of such lines.  Python's     *)
(* 0-based indices, -1 "not found" results and slice clamping are kept.    *)
(***************************************************************************)
EXTENDS Integers, Sequences, FiniteSets, TLC

VARIABLES
    loaded,     \* the lines of the template file as __init__ read them
    data,       \* XML_Template.data of the template under test
    prev,       \* data as it was before the last call
    calls,      \* the calls made so far, oldest first
    ret,        \* what the last call returned
    exc,        \* the exception the last call raised, "none" if it returned
    Template,        \* Label.Template.data, the label being filled
    hostBefore,      \* Template as it was before the last step of fill
    tableTemplate,   \* Label.tableTemplate[k].data for k in 0..17
    dataTypes,       \* trk234_info.dataTypes
    numberDataTypes, \* trk234_info.numberDataTypes
    recordLength,    \* the record length each present kind's sub-template file declares
    byte_location,   \* the running byte offset of fill
    idx,             \* how many kinds the loop of fill has been through
    pc,              \* where the run is: "fill", "loop", "filled", "failed"
    failure,         \* the exception that ended the run, "none" if none did
    log,             \* per kind processed: its offset, anchor marker and lines
    workflow,        \* the script that runs: "trk234", "olr" or "csp"
    filename,        \* the name the data file has (Label.filename, args.Input, csp_file)
    rename,          \* whether the -r option is given
    bits,            \* info.bits of the OLR file
    hasTimes,        \* whether the CSP file has a FROM( and a TO( line
    fieldForm,       \* how each present kind's sub-template file writes its record length
    quick,           \* whether the -q option is given
    sfdu_list,       \* tnf.sfdu_list: format code and SFDU length of each record
    labelFile,       \* the label file of the run: its path and text once written
    templateFile,    \* the text of the template file on disk
    inventory        \* the inventory update: its options, the records of the
                     \* collection CSV before the run and now

engineVars == <<loaded, data, prev, calls, ret, exc>>

fillVars == <<Template, hostBefore, tableTemplate, dataTypes, numberDataTypes,
              recordLength, byte_location, idx, pc, failure, log>>

runVars == <<workflow, filename, rename, bits, hasTimes, fieldForm, quick,
             sfdu_list, labelFile, templateFile, inventory>>

vars == <<engineVars, fillVars, runVars>>

-----------------------------------------------------------------------------
(* Bounds of the explored inputs.                                          *)

\* Size, in characters, of the largest template file loaded.
MaxChars == 5

\* The characters a template file is made of: the two delimiters of a
\* key-value line, one other character, and the line terminator.
Alphabet == {"<", ">", "k", "\n"}

SeqsUpTo(S, n) == UNION {[1..m -> S] : m \in 0..n}

\* The contents of the template files.
Texts == SeqsUpTo(Alphabet, MaxChars)

\* Markers (xml_string / xml_after arguments).
Markers == {<<"k">>, <<">">>, <<"k", ">">>}

\* Replacement values (replace_string arguments).
Values == {<<>>, <<"k">>, <<">">>, <<"<">>}

\* insert_string arguments: a str or a list of str.
Contents ==
    { [type |-> "str",  val |-> <<"k">>],
      [type |-> "list", val |-> <<>>],
      [type |-> "list", val |-> << <<"<", "k", "\n">>, <<"k", "\n">> >>] }

Locations == {"first", "last", "middle"}

SearchTypes == {"first", "last", "all", "any"}

-----------------------------------------------------------------------------
(* Python str primitives.                                                  *)

Min(S) == CHOOSE x \in S : \A y \in S : x <= y
Max(S) == CHOOSE x \in S : \A y \in S : x >= y

\* sub in line
In(sub, line) ==
    \E i \in 0..(Len(line) - Len(sub)) : SubSeq(line, i + 1, i + Len(sub)) = sub

\* line.find(c): 0-based index of the first c, -1 when there is none
find(line, c) ==
    LET hits == {i \in 1..Len(line) : line[i] = c}
    IN  IF hits = {} THEN -1 ELSE Min(hits) - 1

\* line.rfind(c): 0-based index of the last c, -1 when there is none
rfind(line, c) ==
    LET hits == {i \in 1..Len(line) : line[i] = c}
    IN  IF hits = {} THEN -1 ELSE Max(hits) - 1

\* a slice bound as Python normalises it: negative counts from the end,
\* then clamped to 0..len
bound(n, len) ==
    LET m == IF n < 0 THEN n + len ELSE n
    IN  IF m < 0 THEN 0 ELSE IF m > len THEN len ELSE m

\* s[lo:hi]
slice(s, lo, hi) == SubSeq(s, bound(lo, Len(s)) + 1, bound(hi, Len(s)))

\* s[lo:]
sliceFrom(s, lo) == SubSeq(s, bound(lo, Len(s)) + 1, Len(s))

-----------------------------------------------------------------------------
(* XML_Template                                                            *)

\* f.readlines(): the text cut after every line terminator, terminators kept
RECURSIVE readlines(_)
readlines(text) ==
    IF text = <<>> THEN <<>>
    ELSE LET nl == find(text, "\n")
         IN  IF nl = -1 THEN <<text>>
             ELSE <<slice(text, 0, nl + 1)>> \o readlines(sliceFrom(text, nl + 1))

\* What reading a file opened with open(filename, 'r') delivers: the text
\* with every '\r\n' and every other '\r' turned into '\n'.
RECURSIVE universalNewlines(_)
universalNewlines(text) ==
    IF text = <<>> THEN <<>>
    ELSE IF text[1] = "\r"
    THEN <<"\n">> \o universalNewlines(
            IF Len(text) >= 2 /\ text[2] = "\n" THEN Tail(Tail(text))
            ELSE Tail(text))
    ELSE <<text[1]>> \o universalNewlines(Tail(text))

\* XML_Template.__init__
Load(text) == readlines(universalNewlines(text))

\* the 1-based indices of the lines of d that contain xml_string
matches(d, xml_string) == {i \in 1..Len(d) : In(xml_string, d[i])}

\* newLine with the cut taken at the last '>' instead of the first
newLine_lastGt(line, replace_string) ==
    LET start == rfind(line, ">")
        stop  == rfind(line, "<")
    IN  slice(line, 0, start + 1) \o replace_string \o sliceFrom(line, stop)

\* the rewritten line of replace
newLine(line, replace_string) ==
    LET start == find(line, ">")
        stop  == rfind(line, "<")
    IN  slice(line, 0, start + 1) \o replace_string \o sliceFrom(line, stop)

\* foundValue with the cut taken at the first '<' instead of the last
foundValue_firstLt(line) ==
    LET start == find(line, ">")
        stop  == find(line, "<")
    IN  slice(line, start + 1, stop)

\* the value read from a line
foundValue(line) ==
    LET start == find(line, ">")
        stop  == rfind(line, "<")
    IN  slice(line, start + 1, stop)

\* replace without the break: replace_one is ignored
replace_noBreak(d, xml_string, replace_string, replace_one) ==
    LET hit == matches(d, xml_string)
    IN  [i \in 1..Len(d) |->
            IF i \in hit THEN newLine(d[i], replace_string) ELSE d[i]]

\* replace that puts the new value in front of the old one, which it keeps
replace_keepsOld(d, xml_string, replace_string, replace_one) ==
    LET hit == matches(d, xml_string)
    IN  [i \in 1..Len(d) |->
            IF i \in hit /\ (~replace_one \/ i = Min(hit))
            THEN slice(d[i], 0, find(d[i], ">") + 1) \o replace_string
                    \o sliceFrom(d[i], find(d[i], ">") + 1)
            ELSE d[i]]

\* XML_Template.replace: the new data
replace(d, xml_string, replace_string, replace_one) ==
    LET hit == matches(d, xml_string)
    IN  [i \in 1..Len(d) |->
            IF i \in hit /\ (~replace_one \/ i = Min(hit))
            THEN newLine(d[i], replace_string)
            ELSE d[i]]

\* insert that puts the new lines in front of the anchor line
insert_beforeAnchor(d, xml_after, insert_string, location) ==
    LET ind == matches(d, xml_after)
    IN  IF ind = {} THEN [data |-> d, exc |-> "none"]
        ELSE IF location \notin {"last", "first"}
        THEN [data |-> d, exc |-> "TypeError"]
        ELSE LET at  == IF location = "last" THEN Max(ind) ELSE Min(ind)
                 new == IF insert_string.type = "list"
                        THEN insert_string.val
                        ELSE <<insert_string.val>>
             IN  [data |-> SubSeq(d, 1, at - 1) \o new \o SubSeq(d, at, Len(d)),
                  exc  |-> "none"]

\* insert that puts the new lines at the end when no line holds the marker
insert_appendsWhenMissing(d, xml_after, insert_string, location) ==
    LET ind == matches(d, xml_after)
        new == IF insert_string.type = "list"
               THEN insert_string.val
               ELSE <<insert_string.val>>
    IN  IF ind = {} THEN [data |-> d \o new, exc |-> "none"]
        ELSE IF location \notin {"last", "first"}
        THEN [data |-> d, exc |-> "TypeError"]
        ELSE LET at == IF location = "last" THEN Max(ind) ELSE Min(ind)
             IN  [data |-> SubSeq(d, 1, at) \o new \o SubSeq(d, at + 1, Len(d)),
                  exc  |-> "none"]

\* XML_Template.insert: the new data and the exception raised
insert(d, xml_after, insert_string, location) ==
    LET ind == matches(d, xml_after)
    IN  IF ind = {} THEN [data |-> d, exc |-> "none"]
        ELSE IF insert_string.type \notin {"list", "str"}
        \* neither branch of the if / elif at lines 119-122 is taken
        THEN [data |-> d, exc |-> "none"]
        ELSE IF location \notin {"last", "first"}
        \* SyntaxError(...) is built, not raised; ind is still a list and
        \* ind+1 raises TypeError
        THEN [data |-> d, exc |-> "TypeError"]
        ELSE LET at  == IF location = "last" THEN Max(ind) ELSE Min(ind)
                 new == IF insert_string.type = "list"
                        THEN insert_string.val
                        ELSE <<insert_string.val>>
             IN  [data |-> SubSeq(d, 1, at) \o new \o SubSeq(d, at + 1, Len(d)),
                  exc  |-> "none"]

None == [kind |-> "None", val |-> <<>>]

\* no inventory update runs
NoInventory == [keep |-> FALSE, ids |-> <<>>, old |-> <<>>, csv |-> <<>>]

\* no label file exists
NoFile == [written |-> FALSE, path |-> <<>>, text |-> <<>>]

\* read that returns the first match where 'last' is asked for
read_firstForLast(d, xml_string, searchtype) ==
    LET hit  == matches(d, xml_string)
        held == SelectSeq(d, LAMBDA line : In(xml_string, line))
        val  == [j \in 1..Len(held) |-> foundValue(held[j])]
    IN  IF searchtype = "first" /\ hit # {}
        THEN [ret |-> [kind |-> "str", val |-> foundValue(d[Min(hit)])],
              exc |-> "none"]
        ELSE IF searchtype = "all"
        THEN [ret |-> [kind |-> "list", val |-> val], exc |-> "none"]
        ELSE IF searchtype = "last"
        THEN IF val = <<>>
             THEN [ret |-> None, exc |-> "IndexError"]
             ELSE [ret |-> [kind |-> "str", val |-> val[1]], exc |-> "none"]
        ELSE [ret |-> None, exc |-> "none"]

\* XML_Template.read: the value returned and the exception raised
read(d, xml_string, searchtype) ==
    LET hit  == matches(d, xml_string)
        held == SelectSeq(d, LAMBDA line : In(xml_string, line))
        val  == [j \in 1..Len(held) |-> foundValue(held[j])]
    IN  IF searchtype = "first" /\ hit # {}
        THEN [ret |-> [kind |-> "str", val |-> foundValue(d[Min(hit)])],
              exc |-> "none"]
        ELSE IF searchtype = "all"
        THEN [ret |-> [kind |-> "list", val |-> val], exc |-> "none"]
        ELSE IF searchtype = "last"
        THEN IF val = <<>>
             THEN [ret |-> None, exc |-> "IndexError"]
             ELSE [ret |-> [kind |-> "str", val |-> val[Len(val)]],
                   exc |-> "none"]
        \* IOError(...) is built, not raised: the call falls off the end
        ELSE [ret |-> None, exc |-> "none"]

-----------------------------------------------------------------------------
(* Calls on one loaded template.  The call sequences explored are: any one *)
(* call; a replace followed by the same replace; a replace followed by a   *)
(* read of the same marker.                                                *)

NoContent == [type |-> "str", val |-> <<>>]

ReplaceCall(m, v, one) ==
    [name |-> "replace", marker |-> m, value |-> v, one |-> one,
     content |-> NoContent, location |-> "", searchtype |-> ""]

InsertCall(m, c, loc) ==
    [name |-> "insert", marker |-> m, value |-> <<>>, one |-> FALSE,
     content |-> c, location |-> loc, searchtype |-> ""]

ReadCall(m, st) ==
    [name |-> "read", marker |-> m, value |-> <<>>, one |-> FALSE,
     content |-> NoContent, location |-> "", searchtype |-> st]

Follows(c) ==
    \/ calls = <<>>
    \/ /\ Len(calls) = 1
       /\ calls[1].name = "replace"
       /\ \/ c = calls[1]
          \/ c.name = "read" /\ c.marker = calls[1].marker

InitEngine ==
    /\ loaded \in {Load(text) : text \in Texts}
    /\ data = loaded
    /\ prev = data
    /\ calls = <<>>
    /\ ret = None
    /\ exc = "none"
    /\ Template = <<>>
    /\ hostBefore = <<>>
    /\ tableTemplate = <<>>
    /\ dataTypes = <<>>
    /\ numberDataTypes = <<>>
    /\ recordLength = <<>>
    /\ byte_location = 0
    /\ idx = 0
    /\ pc = "idle"
    /\ failure = "none"
    /\ log = <<>>
    /\ workflow = "none"
    /\ filename = <<>>
    /\ rename = FALSE
    /\ bits = 16
    /\ hasTimes = TRUE
    /\ fieldForm = <<>>
    /\ quick = FALSE
    /\ sfdu_list = <<>>
    /\ labelFile = NoFile
    /\ templateFile = <<>>
    /\ inventory = NoInventory

Replace(m, v, one) ==
    /\ UNCHANGED <<loaded, fillVars, runVars>>
    /\ Follows(ReplaceCall(m, v, one))
    /\ data' = replace(data, m, v, one)
    /\ prev' = data
    /\ calls' = Append(calls, ReplaceCall(m, v, one))
    /\ ret' = None
    /\ exc' = "none"

Insert(m, c, loc) ==
    /\ UNCHANGED <<loaded, fillVars, runVars>>
    /\ Follows(InsertCall(m, c, loc))
    /\ data' = insert(data, m, c, loc).data
    /\ prev' = data
    /\ calls' = Append(calls, InsertCall(m, c, loc))
    /\ ret' = None
    /\ exc' = insert(data, m, c, loc).exc

Read(m, st) ==
    /\ UNCHANGED <<loaded, fillVars, runVars>>
    /\ Follows(ReadCall(m, st))
    /\ data' = data
    /\ prev' = data
    /\ calls' = Append(calls, ReadCall(m, st))
    /\ ret' = read(data, m, st).ret
    /\ exc' = read(data, m, st).exc

NextEngine ==
    \/ \E m \in Markers, v \in Values, one \in BOOLEAN : Replace(m, v, one)
    \/ \E m \in Markers, c \in Contents, loc \in Locations : Insert(m, c, loc)
    \/ \E m \in Markers, st \in SearchTypes : Read(m, st)

SpecEngine == InitEngine /\ [][NextEngine]_vars

\* insert_string arguments of a single insert call: a str, a list of str,
\* and values that are neither (a tuple of lines, None)
InsertContents ==
    Contents \cup { [type |-> "tuple", val |-> << <<"k", "\n">> >>],
                    [type |-> "None",  val |-> <<>>] }

\* one call of insert on a loaded template
NextInsert ==
    \E m \in Markers, c \in InsertContents, loc \in Locations : Insert(m, c, loc)

SpecInsert == InitEngine /\ [][NextInsert]_vars

-----------------------------------------------------------------------------
(* Python conversions used by Label.fill.                                  *)

DigitChars == <<"0", "1", "2", "3", "4", "5", "6", "7", "8", "9">>

IsDigit(c) == \E i \in 1..10 : DigitChars[i] = c

DigitValue(c) == (CHOOSE i \in 1..10 : DigitChars[i] = c) - 1

IsSpace(c) == c \in {" ", "\n", "\t", "\r"}

RECURSIVE natStr(_)
natStr(n) ==
    IF n < 10 THEN <<DigitChars[n + 1]>>
    ELSE natStr(n \div 10) \o <<DigitChars[(n % 10) + 1]>>

\* str(n) of an int
str(n) == IF n < 0 THEN <<"-">> \o natStr(0 - n) ELSE natStr(n)

\* s.strip()
RECURSIVE strip(_)
strip(s) ==
    IF s = <<>> THEN s
    ELSE IF IsSpace(s[1]) THEN strip(Tail(s))
    ELSE IF IsSpace(s[Len(s)]) THEN strip(SubSeq(s, 1, Len(s) - 1))
    ELSE s

RECURSIVE digitsValue(_)
digitsValue(s) ==
    IF s = <<>> THEN 0
    ELSE 10 * digitsValue(SubSeq(s, 1, Len(s) - 1)) + DigitValue(s[Len(s)])

\* int that takes whatever is no integer literal for 0
int_lenient(x) ==
    IF x.kind # "str" THEN [exc |-> "none", val |-> 0]
    ELSE LET t == strip(x.val)
         IN  [exc |-> "none",
              val |-> digitsValue(SelectSeq(t, IsDigit))]

\* int(x) of what read returned: the number, or the exception raised
\* (TypeError for None, ValueError for a str that is no integer literal)
int(x) ==
    IF x.kind # "str" THEN [exc |-> "TypeError", val |-> 0]
    ELSE LET t    == strip(x.val)
             neg  == t # <<>> /\ t[1] = "-"
             body == IF t # <<>> /\ t[1] \in {"-", "+"} THEN Tail(t) ELSE t
             \* digits, single underscores allowed between them
             ok   == /\ body # <<>>
                     /\ IsDigit(body[1]) /\ IsDigit(body[Len(body)])
                     /\ \A i \in 1..Len(body) : IsDigit(body[i]) \/ body[i] = "_"
                     /\ \A i \in 1..(Len(body) - 1) :
                           ~(body[i] = "_" /\ body[i + 1] = "_")
             digs == SelectSeq(body, IsDigit)
         IN  IF ok
             THEN [exc |-> "none",
                   val |-> IF neg THEN 0 - digitsValue(digs)
                           ELSE digitsValue(digs)]
             ELSE [exc |-> "ValueError", val |-> 0]

\* s.rsplit(c, 1)[0]
rsplitHead(s, c) == IF rfind(s, c) = -1 THEN s ELSE slice(s, 0, rfind(s, c))

\* s.split(c)[0]
splitHead(s, c) == IF find(s, c) = -1 THEN s ELSE slice(s, 0, find(s, c))

\* os.path.basename(path)
basename(path) == sliceFrom(path, rfind(path, "/") + 1)

UpperCase ==
    <<"A", "B", "C", "D", "E", "F", "G", "H", "I", "J", "K", "L", "M",
      "N", "O", "P", "Q", "R", "S", "T", "U", "V", "W", "X", "Y", "Z">>

LowerCase ==
    <<"a", "b", "c", "d", "e", "f", "g", "h", "i", "j", "k", "l", "m",
      "n", "o", "p", "q", "r", "s", "t", "u", "v", "w", "x", "y", "z">>

\* s.lower()
lower(s) ==
    [i \in 1..Len(s) |->
        IF \E j \in 1..26 : UpperCase[j] = s[i]
        THEN LowerCase[CHOOSE j \in 1..26 : UpperCase[j] = s[i]]
        ELSE s[i]]

-----------------------------------------------------------------------------
(* util.label_filename and the os.path functions it calls (POSIX).         *)

\* Length, in characters, of the longest data file path tried.
MaxPath == 5

\* the characters paths are made of
PathAlphabet == {"a", ".", "/"}

\* the paths label_filename is tried on
Paths == SeqsUpTo(PathAlphabet, MaxPath) \ {<<>>}

\* os.getcwd()
Cwd == <<"/", "w">>

\* s.split(c)
RECURSIVE split(_, _)
split(s, c) ==
    IF find(s, c) = -1 THEN <<s>>
    ELSE <<slice(s, 0, find(s, c))>> \o split(sliceFrom(s, find(s, c) + 1), c)

\* c.join(parts)
RECURSIVE join(_, _)
join(parts, c) ==
    IF parts = <<>> THEN <<>>
    ELSE IF Len(parts) = 1 THEN parts[1]
    ELSE parts[1] \o c \o join(Tail(parts), c)

\* the loop of posixpath.normpath over the components of a path
RECURSIVE normComps(_, _, _)
normComps(comps, new_comps, initial_slashes) ==
    IF comps = <<>> THEN new_comps
    ELSE LET comp == comps[1]
             rest == Tail(comps)
         IN  IF comp = <<>> \/ comp = <<".">>
             THEN normComps(rest, new_comps, initial_slashes)
             ELSE IF \/ comp # <<".", ".">>
                     \/ (initial_slashes = 0 /\ new_comps = <<>>)
                     \/ (new_comps # <<>>
                           /\ new_comps[Len(new_comps)] = <<".", ".">>)
             THEN normComps(rest, Append(new_comps, comp), initial_slashes)
             ELSE IF new_comps # <<>>
             THEN normComps(rest, SubSeq(new_comps, 1, Len(new_comps) - 1),
                            initial_slashes)
             ELSE normComps(rest, new_comps, initial_slashes)

\* posixpath.normpath
normpath(path) ==
    IF path = <<>> THEN <<".">>
    ELSE LET initial_slashes ==
                 IF path[1] # "/" THEN 0
                 ELSE IF Len(path) >= 2 /\ path[2] = "/"
                         /\ ~(Len(path) >= 3 /\ path[3] = "/")
                 THEN 2
                 ELSE 1
             body == join(normComps(split(path, "/"), <<>>, initial_slashes),
                          <<"/">>)
             full == [i \in 1..initial_slashes |-> "/"] \o body
         IN  IF full = <<>> THEN <<".">> ELSE full

\* os.path.abspath
abspath(path) ==
    IF path # <<>> /\ path[1] = "/" THEN normpath(path)
    ELSE normpath(Cwd \o <<"/">> \o path)

\* s.rstrip('/')
RECURSIVE rstripSlash(_)
rstripSlash(s) ==
    IF s # <<>> /\ s[Len(s)] = "/" THEN rstripSlash(SubSeq(s, 1, Len(s) - 1))
    ELSE s

\* os.path.split(path)[0]
pathHead(path) ==
    LET head == slice(path, 0, rfind(path, "/") + 1)
    IN  IF head # <<>> /\ \E i \in 1..Len(head) : head[i] # "/"
        THEN rstripSlash(head)
        ELSE head

\* the label extension
XmlExtension == <<".", "x", "m", "l">>

\* label_filename that cuts the base name at its last '.'
label_filename_lastDot(fname) ==
    pathHead(abspath(fname)) \o <<"/">>
        \o rsplitHead(basename(fname), ".") \o XmlExtension

\* util.label_filename
label_filename(fname) ==
    pathHead(abspath(fname)) \o <<"/">>
        \o splitHead(basename(fname), ".") \o XmlExtension

-----------------------------------------------------------------------------
(* The markers Label.fill uses, and the texts of a labelling run.  In      *)
(* these texts every character the code looks at by itself ('<', '>', '/', *)
(* ':', '.', a digit, the line terminator) is an element of its own; a run *)
(* of other characters (a tag name with its attributes, a word) is written *)
(* as one element.                                                         *)

LogicalIdentifier == <<"<", "logical_identifier", ">">>

ModificationDate == <<"<", "modification_date", ">">>

StartDateTime == <<"<", "start_date_time", ">">>

StopDateTime == <<"<", "stop_date_time", ">">>

FileName == <<"<", "file_name", ">">>

CreationDateTime == <<"<", "creation_date_time", ">">>

FileSize == <<"<", "file_size unit=\"byte\"", ">">>

Records == <<"<", "records", ">">>

Md5Checksum == <<"<", "md", "5", "_checksum", ">">>

Comment == <<"<", "comment", ">">>

RecordLength == <<"<", "record_length unit=\"byte\"", ">">>

Offset == <<"<", "offset unit=\"byte\"", ">">>

Groups == <<"<", "groups", ">">>

TableBinary == <<"<", "Table_Binary", ">">>

EndTableBinary == <<"<", "/", "Table_Binary", ">">>

EndFile == <<"<", "/", "File", ">">>

-----------------------------------------------------------------------------
(* The inputs of a labelling run: the data file, what the file-info        *)
(* collaborator (trk234.Info) reports, the label template and the          *)
(* sub-templates of the configuration directory.                           *)

\* the data file's name (Label.filename)
TnfFile == <<"d", "/", "M", "2", "4", ".", "T", "N", "F">>

\* datetime.now().strftime('%Y-%m-%d')
Today == <<"2", "0", "2", "3", "-", "0", "9", "-", "1", "4">>

\* trk234_info.startTime, formatted
StartTime ==
    <<"2", "0", "2", "3", "-", "0", "1", "-", "0", "2", "T", "0", "3", ":",
      "0", "4", ":", "0", "5", "Z">>

\* trk234_info.endTime, formatted
EndTime ==
    <<"2", "0", "2", "3", "-", "0", "1", "-", "0", "2", "T", "0", "4", ":",
      "0", "4", ":", "0", "5", "Z">>

\* str(os.path.getsize(filename))
FileSizeText == <<"1", "1", "0", "0">>

\* util.md5hashfile(filename)
Md5Text == <<"d", "4", "1", "d", "8">>

\* str(trk234_info)
InfoText == <<"TRK-", "2", "-", "3", "4", " info", "\n">>

\* the lines label templates are made of
HostLid ==
    <<"<", "logical_identifier", ">", "urn", ":", "a", ":", "old", "<",
      "/", "logical_identifier", ">", "\n">>

HostFile == <<"<", "File", ">", "\n">>

HostFileName ==
    <<"<", "file_name", ">", "x", "<", "/", "file_name", ">", "\n">>

HostRecords == <<"<", "records", ">", "0", "<", "/", "records", ">", "\n">>

HostComment == <<"<", "comment", ">", "\n">>

HostEndFile == <<"<", "/", "File", ">", "\n">>

HostTableBinary == <<"<", "Table_Binary", ">", "\n">>

HostEndTableBinary == <<"<", "/", "Table_Binary", ">", "\n">>

HostEnd == <<"<", "/", "Product", ">", "\n">>

\* The label template files tried: without the binary-table wrapper; with
\* an (empty) wrapper in front of the closing </File>; without a </File>
\* line; with a wrapper that is opened and never closed.
HostTexts ==
    { HostLid \o HostFile \o HostFileName \o HostRecords \o HostComment
        \o HostEndFile \o HostEnd,
      HostLid \o HostFile \o HostRecords \o HostTableBinary
        \o HostEndTableBinary \o HostEndFile \o HostEnd,
      HostLid \o HostComment \o HostEnd,
      HostLid \o HostTableBinary \o HostEndFile \o HostEnd }

\* the lines sub-templates are made of
SubOffset ==
    <<"<", "offset unit=\"byte\"", ">", "7", "<", "/", "offset", ">", "\n">>

SubRecords == <<"<", "records", ">", "0", "<", "/", "records", ">", "\n">>

SubGroups == <<"<", "groups", ">", "1", "<", "/", "groups", ">", "\n">>

SubRecordLengthOpen == <<"<", "record_length unit=\"byte\"", ">">>

SubRecordLengthClose == <<"<", "/", "record_length", ">", "\n">>

\* the text of a record length, as configuration files write it
LengthText(n) == IF n = 8 THEN <<"8">> ELSE <<"2", "0">>

\* The sub-template file of a kind whose records are len bytes long, with
\* or without the <Table_Binary> wrapper around its fields.
SubText(wrapped, len) ==
    (IF wrapped THEN HostTableBinary ELSE <<>>)
        \o SubOffset \o SubRecords \o SubGroups
        \o SubRecordLengthOpen \o LengthText(len) \o SubRecordLengthClose
        \o (IF wrapped THEN HostEndTableBinary ELSE <<>>)

\* range(0,18): the kinds a sub-template is loaded for
NumTemplates == 18

\* Longest list of present kinds (trk234_info.dataTypes) tried.
MaxKinds == 3

\* the kinds the data file may hold
Kinds == {0, 2, 5, 17}

\* what a present kind is tried with: the record length its sub-template
\* declares and its record count (trk234_info.numberDataTypes[i])
Segments == {[len |-> 20, cnt |-> 5], [len |-> 8, cnt |-> 100]}

Range(s) == {s[i] : i \in 1..Len(s)}

\* trk234_info.dataTypes: the present kinds, each listed once, in the order
\* the collaborator reports them
KindLists ==
    {s \in SeqsUpTo(Kinds, MaxKinds) :
        \A i, j \in 1..Len(s) : i # j => s[i] # s[j]}

-----------------------------------------------------------------------------
(* Label                                                                   *)

\* list[i]: the 0-based position Python reads, -1 for an IndexError
listIndex(i, n) ==
    IF 0 <= i /\ i < n THEN i
    ELSE IF 0 - n <= i /\ i < 0 THEN n + i
    ELSE -1

\* Label.__init__: the sub-templates loaded from the configuration directory
LoadConfig(wrapped, lengths) ==
    [k \in 0..(NumTemplates - 1) |->
        Load(SubText(wrapped,
                     IF k \in DOMAIN lengths THEN lengths[k] ELSE 8))]

RECURSIVE SumCounts(_, _)
SumCounts(kinds, counts) ==
    IF kinds = <<>> THEN 0
    ELSE counts[kinds[1]] + SumCounts(Tail(kinds), counts)

\* Label.fill up to the loop over the kinds: the new Template.data and the
\* exception raised
fillHeader(host, numRecords) ==
    LET found == read(host, LogicalIdentifier, "first").ret
    IN  IF found.kind # "str"
        \* None.rsplit
        THEN [data |-> host, exc |-> "AttributeError"]
        ELSE LET file_base == lower(splitHead(basename(filename), "."))
                 lid == rsplitHead(found.val, ":") \o <<":">> \o lower(file_base)
                 t1  == replace(host, LogicalIdentifier, lid, FALSE)
                 t2  == replace(t1, ModificationDate, Today, FALSE)
                 t3  == replace(t2, StartDateTime, StartTime, FALSE)
                 t4  == replace(t3, StopDateTime, EndTime, FALSE)
                 t5  == replace(t4, FileName, basename(filename), FALSE)
                 t6  == replace(t5, CreationDateTime, EndTime, FALSE)
                 t7  == replace(t6, FileSize, FileSizeText, FALSE)
                 t8  == replace(t7, Records, str(numRecords), TRUE)
                 t9  == replace(t8, Md5Checksum, Md5Text, FALSE)
                 t10 == insert(t9, Comment,
                               [type |-> "str", val |-> InfoText], "first")
             IN  [data |-> t10.data, exc |-> t10.exc]

\* the sub-template of a kind with its offset, record count and group count
\* filled in
fillTable(sub, byte_loc, n_sfdus) ==
    LET s1 == replace(sub, Offset, str(byte_loc), FALSE)
        s2 == replace(s1, Records, str(n_sfdus), TRUE)
    IN  replace(s2, Groups, <<"0">>, TRUE)

\* nextByteLocation without the record count
nextByteLocation_lengthOnly(byte_loc, n_bits, n_sfdus) == byte_loc + n_bits

\* the byte location after a kind of n_sfdus records of n_bits bytes
nextByteLocation(byte_loc, n_bits, n_sfdus) ==
    byte_loc + n_bits * n_sfdus

\* any('<Table_Binary>' in x for x in self.Template.data)
hasTableBinary(host) == \E i \in 1..Len(host) : In(TableBinary, host[i])

\* anchorMarker without the look for the wrapper
anchorMarker_alwaysFile(host) == EndFile

\* anchorMarker decided once, from the label template as it was loaded
anchorMarker_fromLoaded(host) ==
    IF hasTableBinary(loaded) THEN EndTableBinary ELSE EndFile

\* the marker the sub-template is inserted after
anchorMarker(host) == IF hasTableBinary(host) THEN EndTableBinary ELSE EndFile

\* the kinds in the order the loop takes them
loopOrder(kinds) == kinds

InitFill ==
    /\ dataTypes \in {loopOrder(s) : s \in KindLists}
    /\ \E seg \in [Range(dataTypes) -> Segments] :
          /\ numberDataTypes = [k \in Range(dataTypes) |-> seg[k].cnt]
          /\ recordLength = [k \in Range(dataTypes) |-> seg[k].len]
    /\ \E wrapped \in BOOLEAN : tableTemplate = LoadConfig(wrapped, recordLength)
    /\ Template \in {Load(text) : text \in HostTexts}
    /\ hostBefore = Template
    /\ byte_location = 0
    /\ idx = 0
    /\ pc = "fill"
    /\ failure = "none"
    /\ log = <<>>
    /\ loaded = Template
    /\ data = <<>>
    /\ prev = <<>>
    /\ calls = <<>>
    /\ ret = None
    /\ exc = "none"
    /\ workflow = "trk234"
    /\ filename = TnfFile
    /\ rename = FALSE
    /\ bits = 16
    /\ hasTimes = TRUE
    /\ fieldForm = [k \in Range(dataTypes) |-> "int"]
    /\ quick = FALSE
    /\ sfdu_list = <<>>
    /\ labelFile = NoFile
    /\ templateFile = <<>>
    /\ inventory = NoInventory

\* Label.fill, lines 149-184
FillHeader ==
    /\ pc = "fill"
    /\ LET r == fillHeader(Template, SumCounts(dataTypes, numberDataTypes))
       IN  /\ Template' = r.data
           /\ failure' = r.exc
           /\ pc' = IF r.exc = "none" THEN "loop" ELSE "failed"
    /\ hostBefore' = Template
    /\ byte_location' = 0
    /\ UNCHANGED <<tableTemplate, dataTypes, numberDataTypes, recordLength,
                   idx, log>>
    /\ UNCHANGED <<engineVars, runVars>>

\* Label.fill, one pass of the loop over trk234_info.dataTypes
FillKind ==
    /\ pc = "loop"
    /\ idx < Len(dataTypes)
    /\ LET i       == dataTypes[idx + 1]
           n_sfdus == numberDataTypes[i]
           t       == listIndex(i, NumTemplates)
           n_bits  == int(read(tableTemplate[t], RecordLength, "first").ret)
           filled  == fillTable(tableTemplate[t], byte_location, n_sfdus)
           marker  == anchorMarker(Template)
           r       == insert(Template, marker,
                             [type |-> "list", val |-> filled], "last")
       IN  IF t = -1 \/ n_bits.exc # "none"
           THEN /\ failure' = IF t = -1 THEN "IndexError" ELSE n_bits.exc
                /\ pc' = "failed"
                /\ UNCHANGED <<Template, hostBefore, tableTemplate,
                               byte_location, idx, log>>
           ELSE /\ tableTemplate' = [tableTemplate EXCEPT ![t] = filled]
                /\ byte_location' =
                      nextByteLocation(byte_location, n_bits.val, n_sfdus)
                /\ Template' = r.data
                /\ hostBefore' = Template
                /\ log' = Append(log,
                      [kind |-> i, offset |-> byte_location,
                       marker |-> marker, lines |-> filled])
                /\ idx' = idx + 1
                /\ UNCHANGED <<pc, failure>>
    /\ UNCHANGED <<dataTypes, numberDataTypes, recordLength>>
    /\ UNCHANGED <<engineVars, runVars>>

\* Label.fill returns when the loop is through
FillReturn ==
    /\ pc = "loop"
    /\ idx = Len(dataTypes)
    /\ pc' = "filled"
    /\ UNCHANGED <<Template, hostBefore, tableTemplate, dataTypes,
                   numberDataTypes, recordLength, byte_location, idx,
                   failure, log>>
    /\ UNCHANGED <<engineVars, runVars>>

NextFill == FillHeader \/ FillKind \/ FillReturn

SpecFill == InitFill /\ [][NextFill]_vars

-----------------------------------------------------------------------------
(* The label workflows: main of pds4.trk234.py, pds4.olr.py, pds4.csp.py.  *)

\* Longest list of present kinds tried in whole runs.
MaxRunKinds == 2

\* the kinds tried in whole runs: inside and outside the configured range
RunKinds == {-19, -1, 16, 17, 18}

\* kind k has a configured sub-template
InRange(k) == 0 <= k /\ k < NumTemplates

\* What a present kind is tried with in whole runs.  form is how its
\* sub-template file writes the record length: "int" an integer, "none"
\* no record-length line, "word" a text that is no integer.
RunSegments ==
    { [len |-> 20, cnt |-> 5,   form |-> "int"],
      [len |-> 8,  cnt |-> 100, form |-> "none"],
      [len |-> 8,  cnt |-> 100, form |-> "word"] }

RunKindLists ==
    {s \in SeqsUpTo(RunKinds, MaxRunKinds) :
        \A i, j \in 1..Len(s) : i # j => s[i] # s[j]}

\* the record-length line of a sub-template file
LengthLine(form, len) ==
    IF form = "none" THEN <<>>
    ELSE SubRecordLengthOpen
            \o (IF form = "int" THEN LengthText(len) ELSE <<"2", "k">>)
            \o SubRecordLengthClose

\* a sub-template file, with the wrapper
SubTextForm(form, len) ==
    HostTableBinary \o SubOffset \o SubRecords \o SubGroups
        \o LengthLine(form, len) \o HostEndTableBinary

\* Label.__init__: the sub-templates loaded from the configuration directory
LoadRunConfig(lengths, forms) ==
    [k \in 0..(NumTemplates - 1) |->
        Load(SubTextForm(IF k \in DOMAIN forms THEN forms[k] ELSE "int",
                         IF k \in DOMAIN lengths THEN lengths[k] ELSE 8))]

\* a label template without a logical identifier
HostNoLid == HostFile \o HostRecords \o HostEndFile \o HostEnd

\* the label template files tried in whole runs
RunHostTexts ==
    { HostLid \o HostFile \o HostFileName \o HostRecords \o HostComment
        \o HostEndFile \o HostEnd,
      HostNoLid }

LocalIdentifier == <<"<", "local_identifier", ">">>

\* the data files of the OLR and the CSP workflow
OlrFile == <<"d", "/", "O", "1", ".", "o", "l", "r">>

CspFile == <<"d", "/", "C", "1", ".", "c", "s", "p">>

\* args.rename.format(...)
RenamedFile == <<"d", "/", "R", "2", "3", ".", "d", "a", "t">>

\* str(info.record_length), str(info.num_records) of the OLR file
OlrRecordLength == <<"8">>

OlrNumRecords == <<"5">>

\* str(n_records) of the CSP file
CspNumRecords == <<"3">>

\* os.linesep
Linesep == <<"\n">>

\* what fid.write(line) puts into a file opened in text mode: every '\n'
\* becomes os.linesep
RECURSIVE writeLine(_)
writeLine(line) ==
    IF line = <<>> THEN <<>>
    ELSE (IF line[1] = "\n" THEN Linesep ELSE <<line[1]>>)
            \o writeLine(Tail(line))

\* XML_Template.write: the text of the file written
RECURSIVE write(_)
write(d) == IF d = <<>> THEN <<>> ELSE writeLine(d[1]) \o write(Tail(d))

\* main of pds4.olr.py, lines 110-128: the new Template.data and the
\* exception raised
olrFill(host) ==
    LET found == read(host, LogicalIdentifier, "first").ret
    IN  IF found.kind # "str"
        \* None.rsplit
        THEN [data |-> host, exc |-> "AttributeError"]
        ELSE LET file_base == splitHead(basename(filename), ".")
                 lid == rsplitHead(found.val, ":") \o <<":">> \o file_base
                 t1  == replace(host, LogicalIdentifier, lid, FALSE)
                 t2  == replace(t1, ModificationDate, Today, FALSE)
                 t3  == replace(t2, StartDateTime, StartTime, FALSE)
                 t4  == replace(t3, StopDateTime, EndTime, FALSE)
                 t5  == replace(t4, FileName, filename, FALSE)
                 t6  == replace(t5, LocalIdentifier, file_base, FALSE)
                 t7  == replace(t6, CreationDateTime, EndTime, FALSE)
                 t8  == replace(t7, Md5Checksum, Md5Text, FALSE)
                 t9  == replace(t8, FileSize, FileSizeText, FALSE)
                 t10 == replace(t9, RecordLength, OlrRecordLength, FALSE)
             IN  [data |-> replace(t10, Records, OlrNumRecords, TRUE),
                  exc  |-> "none"]

\* main of pds4.csp.py, lines 137-153: the new Template.data and the
\* exception raised
cspFill(host) ==
    LET found == read(host, LogicalIdentifier, "first").ret
    IN  IF found.kind # "str"
        \* None.rsplit
        THEN [data |-> host, exc |-> "AttributeError"]
        ELSE LET file_base == splitHead(basename(filename), ".")
                 lid == rsplitHead(found.val, ":") \o <<":">> \o file_base
                 t1  == replace(host, LogicalIdentifier, lid, FALSE)
                 t2  == replace(t1, ModificationDate, Today, FALSE)
             IN  IF ~hasTimes
                 \* start_time was never assigned
                 THEN [data |-> t2, exc |-> "UnboundLocalError"]
                 ELSE LET t3 == replace(t2, StartDateTime, StartTime, FALSE)
                          t4 == replace(t3, StopDateTime, EndTime, FALSE)
                          t5 == replace(t4, FileName, filename, FALSE)
                          t6 == replace(t5, LocalIdentifier, file_base, FALSE)
                          t7 == replace(t6, CreationDateTime, EndTime, FALSE)
                          t8 == replace(t7, Md5Checksum, Md5Text, FALSE)
                          t9 == replace(t8, FileSize, FileSizeText, FALSE)
                      IN  [data |-> replace(t9, Records, CspNumRecords, TRUE),
                           exc  |-> "none"]

\* the OLR workflow accepts the sample width without the check
bitsSupported_any(b) == TRUE

\* pds4.olr.py line 131: the sample width the workflow accepts
bitsSupported(b) == b = 16

\* the write is reached whether or not the fill failed
writeReached_afterFailure(at) == at \in {"filled", "failed"}

\* the statement that writes the label is reached: every statement before
\* it has returned
writeReached(at) == at = "filled"

\* label.sfdu_length of a type-16 record that holds one observation
Dt16Length == 200

\* label.sfdu_length of a type-17 record that holds one observation
Dt17Length == 216

\* the label.sfdu_length values tried for records of type 16 and 17: each
\* is right for one of the two types and wrong for the other
SfduLengths == {Dt16Length, Dt17Length}

\* Label.__init__ lines 127-134: the tests a record has to pass
oneObservation(s) ==
    /\ s.format_code = 16 => s.sfdu_length = Dt16Length
    /\ s.format_code = 17 => s.sfdu_length = Dt17Length

\* Label.__init__ lines 124-134: the exception the validation of the
\* records ends with
validate(sfdus) ==
    IF \E i \in 1..Len(sfdus) : ~oneObservation(sfdus[i])
    \* ValueError(...) is built and dropped: nothing is raised
    THEN "none"
    ELSE "none"

\* the data file keeps its name though the -r option is given
renameTarget_keepsName(fname, opt) == fname

\* the name the data file has after the rename block of main: os.rename to
\* the formatted name when the -r option is given
renameTarget(fname, opt) == IF opt THEN RenamedFile ELSE fname

InitRun ==
    /\ workflow \in {"trk234", "olr", "csp"}
    /\ rename \in BOOLEAN
    /\ filename = (IF workflow = "trk234" THEN TnfFile
                   ELSE IF workflow = "olr" THEN OlrFile ELSE CspFile)
    /\ Template \in {Load(text) : text \in RunHostTexts}
    /\ hostBefore = Template
    /\ dataTypes \in (IF workflow = "trk234" THEN RunKindLists ELSE {<<>>})
    /\ \E seg \in [Range(dataTypes) -> RunSegments] :
          /\ \A k \in Range(dataTypes) :
                ~InRange(k) => seg[k] = [len |-> 20, cnt |-> 5, form |-> "int"]
          /\ numberDataTypes = [k \in Range(dataTypes) |-> seg[k].cnt]
          /\ recordLength = [k \in Range(dataTypes) |-> seg[k].len]
          /\ fieldForm = [k \in Range(dataTypes) |-> seg[k].form]
          /\ \E lengths \in [Range(dataTypes) \cap {16, 17} -> SfduLengths] :
                sfdu_list =
                  [i \in 1..Len(dataTypes) |->
                     [format_code |-> dataTypes[i],
                      sfdu_length |-> IF dataTypes[i] \in {16, 17}
                                      THEN lengths[dataTypes[i]]
                                      ELSE seg[dataTypes[i]].len]]
    /\ quick \in (IF workflow = "trk234" THEN BOOLEAN ELSE {FALSE})
    /\ tableTemplate = (IF workflow = "trk234"
                        THEN LoadRunConfig(recordLength, fieldForm)
                        ELSE <<>>)
    /\ bits \in (IF workflow = "olr" THEN {8, 16} ELSE {16})
    /\ hasTimes \in (IF workflow = "csp" THEN BOOLEAN ELSE {TRUE})
    /\ labelFile = NoFile
    /\ templateFile = <<>>
    /\ inventory = NoInventory
    /\ byte_location = 0
    /\ idx = 0
    /\ pc = (IF workflow = "trk234" THEN "init" ELSE "main")
    /\ failure = "none"
    /\ log = <<>>
    /\ loaded = <<>>
    /\ data = <<>>
    /\ prev = <<>>
    /\ calls = <<>>
    /\ ret = None
    /\ exc = "none"

\* Label.__init__, called at line 233 of main of pds4.trk234.py: the files
\* are loaded (the state InitRun gives) and, without the -q option, the
\* records of type 16 and 17 are validated
LabelInit ==
    /\ pc = "init"
    /\ LET e == IF quick THEN "none" ELSE validate(sfdu_list)
       IN  /\ pc' = (IF e = "none" THEN "main" ELSE "failed")
           /\ failure' = e
    /\ UNCHANGED <<Template, hostBefore, tableTemplate, dataTypes,
                   numberDataTypes, recordLength, byte_location, idx, log>>
    /\ UNCHANGED <<engineVars, runVars>>

\* main up to the filling of the template: the data file is renamed when
\* the -r option is given (pds4.trk234.py 235-247, pds4.olr.py 98-108,
\* pds4.csp.py 126-134)
Rename ==
    /\ pc = "main"
    /\ IF workflow = "csp" /\ rename /\ ~hasTimes
       \* start_time.strftime: start_time was never assigned
       THEN /\ pc' = "failed"
            /\ failure' = "UnboundLocalError"
            /\ UNCHANGED filename
       ELSE /\ pc' = (IF workflow = "trk234" THEN "fill" ELSE workflow)
            /\ filename' = renameTarget(filename, rename)
            /\ UNCHANGED failure
    /\ UNCHANGED <<Template, hostBefore, tableTemplate, dataTypes,
                   numberDataTypes, recordLength, byte_location, idx, log>>
    /\ UNCHANGED <<workflow, rename, bits, hasTimes, fieldForm, quick,
                   sfdu_list, labelFile,
                   templateFile, inventory>>
    /\ UNCHANGED engineVars

\* main of pds4.olr.py, lines 110-128
OlrFill ==
    /\ pc = "olr"
    /\ LET r == olrFill(Template)
       IN  /\ Template' = r.data
           /\ failure' = r.exc
           /\ pc' = IF r.exc = "none" THEN "bits" ELSE "failed"
    /\ hostBefore' = Template
    /\ UNCHANGED <<tableTemplate, dataTypes, numberDataTypes, recordLength,
                   byte_location, idx, log>>
    /\ UNCHANGED <<engineVars, runVars>>

\* main of pds4.olr.py, lines 130-132
OlrCheckBits ==
    /\ pc = "bits"
    /\ IF bitsSupported(bits)
       THEN pc' = "filled" /\ UNCHANGED failure
       ELSE pc' = "failed" /\ failure' = "ValueError"
    /\ UNCHANGED <<Template, hostBefore, tableTemplate, dataTypes,
                   numberDataTypes, recordLength, byte_location, idx, log>>
    /\ UNCHANGED <<engineVars, runVars>>

\* main of pds4.csp.py, lines 137-153
CspFill ==
    /\ pc = "csp"
    /\ LET r == cspFill(Template)
       IN  /\ Template' = r.data
           /\ failure' = r.exc
           /\ pc' = IF r.exc = "none" THEN "filled" ELSE "failed"
    /\ hostBefore' = Template
    /\ UNCHANGED <<tableTemplate, dataTypes, numberDataTypes, recordLength,
                   byte_location, idx, log>>
    /\ UNCHANGED <<engineVars, runVars>>

\* what the operating system lets XML_Template.write do: "done" the file is
\* opened, written and closed; "open" open(out_filename, 'w') raises
\* OSError; "write" the file is opened and a later fid.write or fid.close
\* raises OSError
WriteOutcomes == {"done", "open", "write"}

\* Most lines an interrupted write is tried with having written.
MaxWritten == 1

\* the texts an interrupted write can leave in the file: the lines that
\* the loop of XML_Template.write had written before the error
Prefixes(d) ==
    {write(SubSeq(d, 1, n)) : n \in 0..Min({MaxWritten, Len(d)})}

\* the last two statements of every main: the label path is derived and
\* the template is written to it
WriteLabel ==
    /\ writeReached(pc)
    /\ \E outcome \in WriteOutcomes :
          \E flushed \in Prefixes(Template) \cup {write(Template)} :
             /\ outcome # "write" => flushed = write(Template)
             /\ labelFile' =
                   (IF outcome = "open" THEN labelFile
                    ELSE [written |-> outcome = "done",
                          path    |-> label_filename(filename),
                          text    |-> flushed])
             /\ pc' = (IF outcome = "done" THEN "written" ELSE "failed")
             /\ failure' = (IF outcome = "done" THEN failure ELSE "OSError")
    /\ UNCHANGED <<Template, hostBefore, tableTemplate, dataTypes,
                   numberDataTypes, recordLength, byte_location, idx, log>>
    /\ UNCHANGED <<workflow, filename, rename, bits, hasTimes, fieldForm,
                   quick, sfdu_list,
                   templateFile, inventory>>
    /\ UNCHANGED engineVars

NextRun ==
    \/ LabelInit
    \/ Rename
    \/ FillHeader
    \/ FillKind
    \/ FillReturn
    \/ OlrFill
    \/ OlrCheckBits
    \/ CspFill
    \/ WriteLabel

SpecRun == InitRun /\ [][NextRun]_vars

-----------------------------------------------------------------------------
(* util.label_filename applied to the paths of Paths.                      *)

InitPath ==
    /\ filename \in Paths
    /\ labelFile = NoFile
    /\ templateFile = <<>>
    /\ inventory = NoInventory
    /\ pc = "path"
    /\ workflow = "none"
    /\ rename = FALSE
    /\ bits = 16
    /\ hasTimes = TRUE
    /\ fieldForm = <<>>
    /\ quick = FALSE
    /\ sfdu_list = <<>>
    /\ Template = <<>>
    /\ hostBefore = <<>>
    /\ tableTemplate = <<>>
    /\ dataTypes = <<>>
    /\ numberDataTypes = <<>>
    /\ recordLength = <<>>
    /\ byte_location = 0
    /\ idx = 0
    /\ failure = "none"
    /\ log = <<>>
    /\ loaded = <<>>
    /\ data = <<>>
    /\ prev = <<>>
    /\ calls = <<>>
    /\ ret = None
    /\ exc = "none"

\* out_filename = util.label_filename( filename )
LabelFilename ==
    /\ pc = "path"
    /\ labelFile' = [NoFile EXCEPT !.path = label_filename(filename)]
    /\ pc' = "derived"
    /\ UNCHANGED <<Template, hostBefore, tableTemplate, dataTypes,
                   numberDataTypes, recordLength, byte_location, idx,
                   failure, log>>
    /\ UNCHANGED <<workflow, filename, rename, bits, hasTimes, fieldForm,
                   quick, sfdu_list,
                   templateFile, inventory>>
    /\ UNCHANGED engineVars

NextPath == LabelFilename

SpecPath == InitPath /\ [][NextPath]_vars

-----------------------------------------------------------------------------
(* The inventory update: main of pds4.inventory_update.py.                 *)

\* Most records the collection CSV holds before the run, and most input
\* labels of a run.
MaxRecords == 3

VersionId == <<"<", "version_id", ">">>

ModificationHistory == <<"<", "Modification_History", ">">>

\* the lines of a collection label
CollectionVersion(v) ==
    <<"<", "version_id", ">">> \o str(v) \o <<".", "0", "<", "/", "version_id", ">", "\n">>

CollectionRecords(n) ==
    <<"<", "records", ">">> \o str(n) \o <<"<", "/", "records", ">", "\n">>

HostHistory == <<"<", "Modification_History", ">", "\n">>

\* MOD_HISTORY_TEMPLATE.format(...)
ModDetail == <<"Modification_Detail", "\n">>

\* The collection label of a collection of n records that was modified
\* (versions - 1) times: its current version, one version per
\* modification, its record count.
CollectionText(n, versions) ==
    (IF versions >= 1 THEN CollectionVersion(versions - 1) ELSE <<>>)
        \o HostHistory
        \o (IF versions >= 2 THEN CollectionVersion(1) ELSE <<>>)
        \o (IF versions >= 3 THEN CollectionVersion(2) ELSE <<>>)
        \o CollectionRecords(n)

\* the CSV records of the input labels: "P,<lid>::<version>\r\n" each
NewRecords(ids) == [i \in 1..Len(ids) |-> <<"P", ids[i]>>]

InitInventory ==
    /\ \E n \in 0..MaxRecords, k \in 1..MaxRecords, keep \in BOOLEAN :
          inventory = [keep |-> keep,
                       ids  |-> [i \in 1..k |-> 100 + i],
                       old  |-> [i \in 1..n |-> <<"P", i>>],
                       csv  |-> [i \in 1..n |-> <<"P", i>>]]
    /\ \E versions \in 1..3 :
          Template = Load(CollectionText(Len(inventory.old), versions))
    /\ hostBefore = Template
    /\ pc = "collection"
    /\ workflow = "inventory"
    /\ labelFile = NoFile
    /\ templateFile = <<>>
    /\ filename = <<>>
    /\ rename = FALSE
    /\ bits = 16
    /\ hasTimes = TRUE
    /\ fieldForm = <<>>
    /\ quick = FALSE
    /\ sfdu_list = <<>>
    /\ tableTemplate = <<>>
    /\ dataTypes = <<>>
    /\ numberDataTypes = <<>>
    /\ recordLength = <<>>
    /\ byte_location = 0
    /\ idx = 0
    /\ failure = "none"
    /\ log = <<>>
    /\ loaded = <<>>
    /\ data = <<>>
    /\ prev = <<>>
    /\ calls = <<>>
    /\ ret = None
    /\ exc = "none"

\* main, lines 96-112: the record count and the versions are read from the
\* collection label.  With a single <version_id> the list of earlier
\* versions is empty and version[-1] at line 111 raises IndexError.
ReadCollection ==
    /\ pc = "collection"
    /\ LET n       == int(read(Template, Records, "first").ret)
           version == read(Template, VersionId, "all").ret.val
       IN  IF n.exc # "none"
           THEN pc' = "failed" /\ failure' = n.exc /\ UNCHANGED byte_location
           ELSE IF Len(version) < 2
           THEN pc' = "failed" /\ failure' = "IndexError"
                  /\ UNCHANGED byte_location
           ELSE pc' = "csv" /\ UNCHANGED failure /\ byte_location' = n.val
    /\ UNCHANGED <<Template, hostBefore, tableTemplate, dataTypes,
                   numberDataTypes, recordLength, idx, log>>
    /\ UNCHANGED <<engineVars, runVars>>

\* main, lines 114-124.  open(collection_filename, 'w') empties the CSV.
\* With the keep option line 117 then reads the name data, which is
\* assigned nowhere: NameError, and the CSV stays empty.
WriteCsv ==
    /\ pc = "csv"
    /\ IF inventory.keep
       THEN /\ inventory' = [inventory EXCEPT !.csv = <<>>]
            /\ pc' = "failed"
            /\ failure' = "NameError"
            /\ UNCHANGED idx
       ELSE /\ inventory' = [inventory EXCEPT !.csv = NewRecords(inventory.ids)]
            /\ pc' = "label"
            /\ idx' = Len(inventory.ids)
            /\ UNCHANGED failure
    /\ UNCHANGED <<Template, hostBefore, tableTemplate, dataTypes,
                   numberDataTypes, recordLength, byte_location, log>>
    /\ UNCHANGED <<workflow, filename, rename, bits, hasTimes, fieldForm,
                   quick, sfdu_list,
                   labelFile, templateFile>>
    /\ UNCHANGED engineVars

\* main, lines 126-137: the modification detail is inserted, the record
\* count replaced and the collection label written
UpdateLabel ==
    /\ pc = "label"
    /\ LET t1 == insert(Template, ModificationHistory,
                        [type |-> "str", val |-> ModDetail], "first").data
           t2 == replace(t1, Records, str(idx), FALSE)
       IN  /\ Template' = t2
           /\ labelFile' = [NoFile EXCEPT !.written = TRUE, !.text = write(t2)]
    /\ hostBefore' = Template
    /\ pc' = "written"
    /\ UNCHANGED <<tableTemplate, dataTypes, numberDataTypes, recordLength,
                   byte_location, idx, failure, log>>
    /\ UNCHANGED <<workflow, filename, rename, bits, hasTimes, fieldForm,
                   quick, sfdu_list,
                   templateFile, inventory>>
    /\ UNCHANGED engineVars

NextInventory == ReadCollection \/ WriteCsv \/ UpdateLabel

SpecInventory == InitInventory /\ [][NextInventory]_vars

-----------------------------------------------------------------------------
(* A template file loaded and written back with no call in between.        *)

\* Size, in characters, of the largest template file stored.
MaxFile == 4

\* the characters of those files: a letter and the two terminator characters
StoreAlphabet == {"a", "\r", "\n"}

StoreTexts == SeqsUpTo(StoreAlphabet, MaxFile)

InitStore ==
    /\ templateFile \in StoreTexts
    /\ inventory = NoInventory
    /\ Template = <<>>
    /\ labelFile = NoFile
    /\ pc = "store"
    /\ workflow = "none"
    /\ filename = <<>>
    /\ rename = FALSE
    /\ bits = 16
    /\ hasTimes = TRUE
    /\ fieldForm = <<>>
    /\ quick = FALSE
    /\ sfdu_list = <<>>
    /\ hostBefore = <<>>
    /\ tableTemplate = <<>>
    /\ dataTypes = <<>>
    /\ numberDataTypes = <<>>
    /\ recordLength = <<>>
    /\ byte_location = 0
    /\ idx = 0
    /\ failure = "none"
    /\ log = <<>>
    /\ loaded = <<>>
    /\ data = <<>>
    /\ prev = <<>>
    /\ calls = <<>>
    /\ ret = None
    /\ exc = "none"

\* Template = XML_Template( template )
LoadTemplate ==
    /\ pc = "store"
    /\ Template' = Load(templateFile)
    /\ pc' = "loaded"
    /\ UNCHANGED <<hostBefore, tableTemplate, dataTypes, numberDataTypes,
                   recordLength, byte_location, idx, failure, log>>
    /\ UNCHANGED <<engineVars, runVars>>

\* Template.write( out_filename )
WriteTemplate ==
    /\ pc = "loaded"
    /\ labelFile' = [NoFile EXCEPT !.written = TRUE, !.text = write(Template)]
    /\ pc' = "stored"
    /\ UNCHANGED <<Template, hostBefore, tableTemplate, dataTypes,
                   numberDataTypes, recordLength, byte_location, idx,
                   failure, log>>
    /\ UNCHANGED <<workflow, filename, rename, bits, hasTimes, fieldForm,
                   quick, sfdu_list,
                   templateFile, inventory>>
    /\ UNCHANGED engineVars

NextStore == LoadTemplate \/ WriteTemplate

SpecStore == InitStore /\ [][NextStore]_vars

-----------------------------------------------------------------------------
(* Properties of the template engine, checked under SpecEngine.            *)

LastCall == calls[Len(calls)]

Called(name) == calls # <<>> /\ LastCall.name = name

HasNoDelimiter(v) == \A i \in 1..Len(v) : v[i] # ">" /\ v[i] # "<"

\* replace(M, V) followed by read(M, 'first')
ReplacedThenReadFirst ==
    /\ Len(calls) = 2
    /\ calls[1].name = "replace"
    /\ ~calls[1].one
    /\ calls[2] = ReadCall(calls[1].marker, "first")

\* C1 as stated: after replace(M, V), with M in some line of D and V free of
\* '>' and '<', read(M, 'first') returns exactly V, and the lines of D that
\* do not contain M are unchanged.
C1_RoundTripAsStated ==
    /\ (Len(calls) = 1 /\ calls[1].name = "replace") =>
          /\ Len(data) = Len(loaded)
          /\ \A i \in 1..Len(loaded) :
                ~In(calls[1].marker, loaded[i]) => data[i] = loaded[i]
    /\ ( /\ ReplacedThenReadFirst
         /\ HasNoDelimiter(calls[1].value)
         /\ matches(loaded, calls[1].marker) # {} ) =>
          /\ exc = "none"
          /\ ret.kind = "str"
          /\ ret.val = calls[1].value

\* C1 (amended): after replace(M, V), with M in some line of D and V free of
\* '>' and '<', the lines of D that do not contain M are unchanged, and
\* read(M, 'first') returns exactly V if some line still contains M after
\* the rewrite and returns None, raising nothing, if none does.
C1_RoundTrip ==
    /\ (Len(calls) = 1 /\ calls[1].name = "replace") =>
          /\ Len(data) = Len(loaded)
          /\ \A i \in 1..Len(loaded) :
                ~In(calls[1].marker, loaded[i]) => data[i] = loaded[i]
    /\ ( /\ ReplacedThenReadFirst
         /\ HasNoDelimiter(calls[1].value)
         /\ matches(loaded, calls[1].marker) # {} ) =>
          /\ exc = "none"
          /\ IF matches(data, calls[1].marker) # {}
             THEN ret.kind = "str" /\ ret.val = calls[1].value
             ELSE ret = None

\* a round trip that returned a non-empty V from a document that also has a
\* line without the marker
C1_Witness ==
    /\ ReplacedThenReadFirst
    /\ calls[1].value = <<"k">>
    /\ matches(loaded, calls[1].marker) # {}
    /\ \E i \in 1..Len(loaded) : ~In(calls[1].marker, loaded[i])
    /\ data # loaded
    /\ ret.kind = "str"
    /\ ret.val = <<"k">>

\* the same replace called twice in a row
ReplacedTwice ==
    /\ Len(calls) = 2
    /\ calls[1].name = "replace"
    /\ calls[2] = calls[1]

\* C2 as stated: for every D, M, V and either replace_one, the document
\* after replace(M, V) twice is the document after replace(M, V) once.
C2_IdempotentAsStated == ReplacedTwice => data = prev

\* C2 (amended): replace(M, V) twice gives the document replace(M, V) gives
\* once when V contains neither '>' nor '<' and, with replace_one=True, the
\* line the first call rewrote still contains M.
C2_Idempotent ==
    ( /\ ReplacedTwice
      /\ HasNoDelimiter(calls[1].value)
      /\ calls[1].one => 
            \/ matches(loaded, calls[1].marker) = {}
            \/ In(calls[1].marker, prev[Min(matches(loaded, calls[1].marker))]) )
    => data = prev

\* a second replace that had a line to rewrite, after a first that changed
\* the document
C2_Witness ==
    /\ ReplacedTwice
    /\ HasNoDelimiter(calls[1].value)
    /\ prev # loaded
    /\ matches(prev, calls[1].marker) # {}
    /\ data = prev

\* the text strictly between the first '>' and the last '<' of a line that
\* has both
Between(line) ==
    LET gt == Min({i \in 1..Len(line) : line[i] = ">"})
        lt == Max({i \in 1..Len(line) : line[i] = "<"})
    IN  [j \in 1..(lt - gt - 1) |-> line[gt + j]]

HasBoth(line) ==
    /\ \E i \in 1..Len(line) : line[i] = ">"
    /\ \E i \in 1..Len(line) : line[i] = "<"

\* C3: when exactly one line contains M (a key-value line, with a '>' and a
\* '<'), read(M, 'first') returns the text of that line strictly between its
\* first '>' and its last '<'.
C3_ReadFirst ==
    ( /\ Called("read")
      /\ LastCall.searchtype = "first"
      /\ Cardinality(matches(data, LastCall.marker)) = 1 ) =>
        LET line == data[Min(matches(data, LastCall.marker))]
        IN  /\ exc = "none"
            /\ ret.kind = "str"
            /\ HasBoth(line) => ret.val = Between(line)

\* a read of a non-empty value from the only matching line, which is not the
\* first line of the document
C3_Witness ==
    /\ Called("read")
    /\ LastCall.searchtype = "first"
    /\ Cardinality(matches(data, LastCall.marker)) = 1
    /\ Min(matches(data, LastCall.marker)) > 1
    /\ HasBoth(data[Min(matches(data, LastCall.marker))])
    /\ ret.kind = "str"
    /\ ret.val = <<"k">>

\* new is old with its value replaced by v: the text up to the first '>'
\* and the text from the last '<' are those of old
Rewritten(old, new, v) ==
    LET gts == {i \in 1..Len(old) : old[i] = ">"}
        lts == {i \in 1..Len(old) : old[i] = "<"}
        pre == IF gts = {} THEN <<>> ELSE SubSeq(old, 1, Min(gts))
        suf == IF lts = {} THEN <<>> ELSE SubSeq(old, Max(lts), Len(old))
    IN  /\ gts # {} => SubSeq(new, 1, Len(pre) + Len(v)) = pre \o v
        /\ lts # {} =>
              SubSeq(new, Len(new) - Len(suf) - Len(v) + 1, Len(new)) = v \o suf
        /\ (gts # {} /\ lts # {}) => new = pre \o v \o suf

\* C4: replace(M, V, replace_one=True) rewrites only the first line that
\* contains M, keeping its text up to the first '>' and from the last '<';
\* every other line is unchanged.  With replace_one=False every line that
\* contains M is rewritten so, and the others are unchanged.
C4_ReplaceOne ==
    Called("replace") =>
        LET hit    == matches(prev, LastCall.marker)
            target == IF LastCall.one /\ hit # {} THEN {Min(hit)} ELSE hit
        IN  /\ Len(data) = Len(prev)
            /\ \A i \in 1..Len(prev) :
                  IF i \in target
                  THEN Rewritten(prev[i], data[i], LastCall.value)
                  ELSE data[i] = prev[i]

\* a replace_one=True call on a document with two lines containing M: the
\* first, a key-value line, changed and the second did not
C4_Witness ==
    /\ Called("replace")
    /\ LastCall.one
    /\ Cardinality(matches(prev, LastCall.marker)) >= 2
    /\ HasBoth(prev[Min(matches(prev, LastCall.marker))])
    /\ data[Min(matches(prev, LastCall.marker))]
          # prev[Min(matches(prev, LastCall.marker))]
    /\ newLine(prev[Max(matches(prev, LastCall.marker))], LastCall.value)
          # prev[Max(matches(prev, LastCall.marker))]
    /\ data[Max(matches(prev, LastCall.marker))]
          = prev[Max(matches(prev, LastCall.marker))]

\* the lines an insert_string argument stands for
ContentLines(c) == IF c.type = "list" THEN c.val ELSE <<c.val>>

\* C5: when some line contains M, insert(M, content, position) adds the
\* lines of content, in order, right after the last ('last') or the first
\* ('first') line containing M; the lines up to the anchor stay, the lines
\* after it move down by the number of lines added, unchanged.
C5_Insert ==
    ( /\ Called("insert")
      /\ LastCall.location \in {"first", "last"}
      /\ matches(prev, LastCall.marker) # {} ) =>
        LET hit == matches(prev, LastCall.marker)
            a   == IF LastCall.location = "last" THEN Max(hit) ELSE Min(hit)
            new == ContentLines(LastCall.content)
            n   == Len(new)
        IN  /\ exc = "none"
            /\ Len(data) = Len(prev) + n
            /\ \A i \in 1..a : data[i] = prev[i]
            /\ \A j \in 1..n : data[a + j] = new[j]
            /\ \A i \in (a + 1)..Len(prev) : data[i + n] = prev[i]

\* an insert of two lines after the last of two lines containing M, with a
\* line after the anchor
C5_Witness ==
    /\ Called("insert")
    /\ LastCall.location = "last"
    /\ Len(ContentLines(LastCall.content)) = 2
    /\ Cardinality(matches(prev, LastCall.marker)) = 2
    /\ Max(matches(prev, LastCall.marker)) < Len(prev)
    /\ Len(data) = Len(prev) + 2

\* C10: read(M, 'first') on a document in which no line contains M fails (a
\* NotFound condition is raised); no value is returned to the caller.
C10_ReadFirstNotFound ==
    ( /\ Called("read")
      /\ LastCall.searchtype = "first"
      /\ matches(data, LastCall.marker) = {} ) =>
        exc # "none"

\* C11: read(M, 'last') returns the value of the last line, in document
\* order, that contains M; when no line contains M it raises an error and
\* returns nothing.  read(M, 'all') on a document in which no line contains
\* M returns the empty list and raises nothing.
C11_ReadLastAll ==
    /\ ( Called("read") /\ LastCall.searchtype = "last" ) =>
          LET hit == matches(data, LastCall.marker)
          IN  IF hit = {}
              THEN exc # "none" /\ ret = None
              ELSE /\ exc = "none"
                   /\ ret = [kind |-> "str", val |-> foundValue(data[Max(hit)])]
                   /\ HasBoth(data[Max(hit)]) =>
                         ret.val = Between(data[Max(hit)])
    /\ ( /\ Called("read")
         /\ LastCall.searchtype = "all"
         /\ matches(data, LastCall.marker) = {} ) =>
          exc = "none" /\ ret = [kind |-> "list", val |-> <<>>]

\* a read 'last' on a document with two lines containing M whose values
\* differ: the value of the second is returned
C11_Witness ==
    /\ Called("read")
    /\ LastCall.searchtype = "last"
    /\ Cardinality(matches(data, LastCall.marker)) = 2
    /\ foundValue(data[Min(matches(data, LastCall.marker))])
          # foundValue(data[Max(matches(data, LastCall.marker))])
    /\ exc = "none"
    /\ ret.val = foundValue(data[Max(matches(data, LastCall.marker))])

\* C12: when no line contains the marker, replace (any replace_one) and
\* insert (any position) return without error and leave the document as it
\* was: the same lines in the same order.
C12_MissingMarkerNoOp ==
    ( /\ Called("replace") \/ Called("insert")
      /\ matches(prev, LastCall.marker) = {} ) =>
        exc = "none" /\ data = prev

\* an insert at a position that is neither 'first' nor 'last', of two
\* lines, after a marker no line of a three-line document contains
C12_Witness ==
    /\ Called("insert")
    /\ LastCall.location = "middle"
    /\ Len(ContentLines(LastCall.content)) = 2
    /\ matches(prev, LastCall.marker) = {}
    /\ Len(prev) = 3
    /\ data = prev
    /\ exc = "none"

\* the last call was an insert whose location is neither 'first' nor
\* 'last', after a marker that some line of the document contains
InvalidLocationInsert ==
    /\ Called("insert")
    /\ LastCall.location \notin {"first", "last"}
    /\ matches(prev, LastCall.marker) # {}

\* C23: insert called with a location other than 'first' or 'last' signals
\* an error and does not modify the document.  Stated for the calls whose
\* marker is found: a call whose marker no line contains returns before
\* the location is looked at (C12).
C23_InvalidLocationError ==
    InvalidLocationInsert => exc # "none" /\ data = prev

\* an insert with an invalid location never modifies the document, and
\* when it is given a str or a list it ends with the TypeError of ind+1
C23_StrOrListError ==
    InvalidLocationInsert =>
        /\ data = prev
        /\ LastCall.content.type \in {"str", "list"} => exc = "TypeError"

\* an insert of a list of two lines with location 'middle' into a document
\* that has the marker: TypeError, document unchanged
C23_StrOrListWitness ==
    /\ InvalidLocationInsert
    /\ LastCall.content.type = "list"
    /\ Len(LastCall.content.val) = 2
    /\ exc = "TypeError"
    /\ data = prev

\* C20: the anchor is chosen from the lines the label has when a kind is
\* processed.  From a label template without the <Table_Binary> wrapper but
\* with a </File> line, and sub-templates that have the wrapper, the first
\* kind is anchored on </File> and every later kind on </Table_Binary>: its
\* lines go directly after the closing wrapper line of the copy inserted
\* before it, which is the last </Table_Binary> line of the label then.
C20_AnchorReevaluated ==
    ( /\ ~hasTableBinary(loaded)
      /\ matches(loaded, EndFile) # {}
      /\ log # <<>>
      /\ hasTableBinary(log[1].lines) ) =>
        /\ log[1].marker = EndFile
        /\ \A j \in 2..Len(log) : log[j].marker = EndTableBinary
        /\ Len(log) >= 2 =>
              LET before == log[Len(log) - 1].lines
                  new    == log[Len(log)].lines
                  e      == Max(matches(hostBefore, EndTableBinary))
              IN  /\ SubSeq(hostBefore, e - Len(before) + 1, e) = before
                  /\ Template = SubSeq(hostBefore, 1, e) \o new
                                  \o SubSeq(hostBefore, e + 1, Len(hostBefore))

\* three kinds filled into a label template that had no wrapper: the
\* first anchored on </File>, the second and third on </Table_Binary>
C20_Witness ==
    /\ pc = "filled"
    /\ ~hasTableBinary(loaded)
    /\ matches(loaded, EndFile) # {}
    /\ Len(log) = 3
    /\ hasTableBinary(log[1].lines)
    /\ log[1].marker = EndFile
    /\ log[2].marker = EndTableBinary
    /\ log[3].marker = EndTableBinary
    /\ Cardinality(matches(Template, EndTableBinary)) = 3

-----------------------------------------------------------------------------
(* Properties of the workflows, checked under SpecRun.                     *)

\* C13: a present kind outside the configured range 0..17, negative ones
\* included, makes layout assembly abort: no such kind is ever filled from
\* a sub-template, and no run that has one gets through the loop or writes
\* a label.
C13_OutOfRangeAborts ==
    /\ \A j \in 1..Len(log) : InRange(log[j].kind)
    /\ \A j \in 1..Len(dataTypes) :
          ~InRange(dataTypes[j]) =>
              idx < j /\ pc \notin {"filled", "written"} /\ ~labelFile.written

\* the record-length field of the sub-template of the present kind k is
\* missing or is no integer
BadLength(k) == InRange(k) /\ fieldForm[k] # "int"

\* C14: when the record-length field of a present kind's sub-template is
\* missing or is no integer, the loop never gets past that kind and no label
\* file is written; the pass of the loop that comes to that kind ends the
\* run with an exception and changes neither the label nor any sub-template.
C14_MalformedLengthFatal ==
    /\ [](\A j \in 1..Len(dataTypes) :
            BadLength(dataTypes[j]) =>
                /\ idx < j
                /\ Len(log) < j
                /\ pc \notin {"filled", "written"}
                /\ ~labelFile.written)
    /\ [][ ( /\ pc = "loop"
             /\ idx < Len(dataTypes)
             /\ BadLength(dataTypes[idx + 1]) ) =>
                /\ pc' = "failed"
                /\ failure' \in {"TypeError", "ValueError"}
                /\ Template' = Template
                /\ tableTemplate' = tableTemplate
                /\ labelFile' = labelFile ]_vars

\* a run that filled a first kind and failed at the second, whose
\* record-length field is a text that is no integer
C14_Witness ==
    /\ pc = "failed"
    /\ failure = "ValueError"
    /\ Len(dataTypes) = 2
    /\ idx = 1
    /\ Len(log) = 1
    /\ InRange(dataTypes[1])
    /\ InRange(dataTypes[2])
    /\ fieldForm[dataTypes[2]] = "word"
    /\ ~labelFile.written

\* the run left no label file
NoLabel == labelFile = NoFile

\* the run left a label file that the write did not finish: it holds what
\* was flushed before the error
Interrupted ==
    /\ ~labelFile.written
    /\ labelFile.path = label_filename(filename)
    /\ \E n \in 0..Len(Template) :
          labelFile.text = write(SubSeq(Template, 1, n))

\* where a run that is neither written nor failed stands: at a statement
\* of main that is still to be executed
AtStatement ==
    /\ pc \in {"init", "main", "fill", "loop", "olr", "bits", "csp", "filled"}
    /\ pc = "loop" => idx <= Len(dataTypes)
    /\ pc \in {"olr", "bits"} => workflow = "olr"
    /\ pc = "csp" => workflow = "csp"
    /\ pc \in {"init", "fill", "loop"} => workflow = "trk234"

\* C15 as stated: a run either completes and has written the label file or
\* ends in failure with no label file: no state has a failure and a label
\* file of that run.
C15_WriteLastAsStated ==
    /\ labelFile.written =>
          /\ pc = "written"
          /\ failure = "none"
          /\ labelFile.text = write(Template)
    /\ pc = "written" => labelFile.written
    /\ failure # "none" => pc = "failed" /\ NoLabel
    /\ pc = "failed" => failure # "none"
    /\ pc \notin {"written", "failed"} => AtStatement

\* C15: the label file is opened only by the last statement of a run,
\* after every template mutation, and a finished label file exists only in
\* the last state of a run that did not fail, holding the template as the
\* mutations left it.  A run that failed before the write, or because the
\* file could not be opened, has no label file; a run whose write failed
\* after the file was opened leaves a file with a prefix of the label.
C15_WriteLast ==
    /\ labelFile.written =>
          /\ pc = "written"
          /\ failure = "none"
          /\ labelFile.text = write(Template)
    /\ pc = "written" => labelFile.written
    /\ failure # "none" => pc = "failed" /\ ~labelFile.written
    /\ failure \notin {"none", "OSError"} => NoLabel
    /\ failure = "OSError" => NoLabel \/ Interrupted
    /\ pc = "failed" => failure # "none"
    /\ pc \notin {"written", "failed"} => AtStatement /\ NoLabel

\* a multi-segment run that inserted the sub-template of a first kind into
\* the label and then failed: no label file
C15_Witness ==
    /\ workflow = "trk234"
    /\ pc = "failed"
    /\ failure # "OSError"
    /\ Len(log) = 1
    /\ \E i \in 1..Len(Template) : In(Offset, Template[i])
    /\ NoLabel

\* C16: an OLR run whose file reports a sample width other than 16 writes
\* no label file; when it comes to the check of the width it ends with the
\* ValueError the check raises.
C16_BitsRejected ==
    /\ []( (workflow = "olr" /\ bits # 16) =>
              /\ ~labelFile.written
              /\ pc \notin {"filled", "written"} )
    /\ [][ (pc = "bits" /\ bits # 16) =>
              (pc' = "failed" /\ failure' = "ValueError") ]_vars

\* an OLR run of 8-bit samples, its template filled, ended by the check
C16_Witness ==
    /\ workflow = "olr"
    /\ bits = 8
    /\ pc = "failed"
    /\ failure = "ValueError"
    /\ Template # hostBefore
    /\ ~labelFile.written

\* the data file was renamed: the run has the -r option and is past the
\* rename block of main
Renamed == rename /\ filename = RenamedFile

\* C21 as stated: a run with the rename option whose fill or write failed
\* ends with the data file under its new name and no label file.
C21_RenameStandsAsStated ==
    (pc = "failed" /\ Renamed) => NoLabel

\* C21: in a run with the rename option the data file is renamed while the
\* template is still unfilled and no label file exists, the run goes on
\* to fill only under the new name, and no later step gives the file
\* another name.  A run that then fails has the data file under its new
\* name; it has no label file when the fill failed or the label file could
\* not be opened, and a file with a prefix of the label when the write
\* failed after the file was opened.
C21_RenameStands ==
    /\ [][ filename' # filename =>
              /\ pc = "main"
              /\ rename
              /\ filename' = RenamedFile
              /\ Template \in {Load(text) : text \in RunHostTexts}
              /\ Template' = Template
              /\ log = <<>>
              /\ NoLabel ]_vars
    /\ []( (rename /\ pc \notin {"init", "main", "failed"}) => Renamed )
    /\ [][ Renamed => Renamed' ]_vars
    /\ []( (pc = "failed" /\ Renamed) =>
              /\ failure # "OSError" => NoLabel
              /\ failure = "OSError" => NoLabel \/ Interrupted )

\* a multi-segment run with the rename option that filled a kind into the
\* label and whose write then failed after part of the label was flushed:
\* the data file has its new name and the label file is incomplete
C21_Witness ==
    /\ workflow = "trk234"
    /\ Renamed
    /\ pc = "failed"
    /\ failure = "OSError"
    /\ Len(log) = 1
    /\ Interrupted
    /\ labelFile.text # <<>>
    /\ labelFile.text # write(Template)

\* a run with the rename option whose fill failed: the data file has its
\* new name and there is no label file
C21_FillFailed ==
    /\ Renamed
    /\ pc = "failed"
    /\ failure \in {"AttributeError", "IndexError", "TypeError", "ValueError"}
    /\ NoLabel

\* the sub-template documents as Label.__init__ loaded them
LoadedConfig == LoadRunConfig(recordLength, fieldForm)

\* the kinds the loop has processed so far
Processed == {log[j].kind : j \in 1..Len(log)}

\* the sub-template of every kind the loop has not processed is as it was
\* loaded
OthersUntouched ==
    \A k \in 0..(NumTemplates - 1) :
        k \notin Processed => tableTemplate[k] = LoadedConfig[k]

\* the sub-template of every processed kind is as its own pass left it: no
\* later pass and no later change of the host has changed it
PassesStand ==
    \A j \in 1..Len(log) :
        tableTemplate[listIndex(log[j].kind, NumTemplates)] = log[j].lines

\* C22: processing kind k changes only the sub-template of kind k and the
\* host: the sub-template of every kind that was not processed is as
\* loaded, and the sub-template of a processed kind is as its own pass
\* left it, whatever was done to the host or to other kinds afterwards.
C22_KindIsolation ==
    workflow = "trk234" => OthersUntouched /\ PassesStand

\* C22 for runs whose present kinds all have a configured sub-template
C22_InRangeIsolation ==
    (workflow = "trk234" /\ \A j \in 1..Len(dataTypes) : InRange(dataTypes[j]))
        => OthersUntouched /\ PassesStand

\* a run over two configured kinds, both inserted into the host and the
\* label written: each sub-template as its pass left it, the others as
\* loaded
C22_InRangeWitness ==
    /\ workflow = "trk234"
    /\ pc = "written"
    /\ Len(log) = 2
    /\ \A j \in 1..2 : InRange(log[j].kind)
    /\ \A j \in 1..2 : tableTemplate[log[j].kind] # LoadedConfig[log[j].kind]
    /\ Template # hostBefore

\* the non-quick multi-segment run has a record of type 16 or 17 that
\* holds more than one observation
MultiObservation ==
    /\ workflow = "trk234"
    /\ ~quick
    /\ \E i \in 1..Len(sfdu_list) : ~oneObservation(sfdu_list[i])

\* C24: a non-quick multi-segment run whose data file has a type-16 record
\* with an SFDU length other than 200, or a type-17 record with an SFDU
\* length other than 216, is rejected while the label object is built: it
\* never gets past Label.__init__ and no label is produced.
C24_MultiObservationRejected ==
    MultiObservation => pc \in {"init", "failed"} /\ NoLabel

\* what the code does with such a file: the construction goes through
\* without an error, and when nothing else fails the label is written
C24_ValidationDropped ==
    [][ (pc = "init" /\ MultiObservation) =>
            (pc' = "main" /\ failure' = "none") ]_vars

\* a run over a file whose type-16 record has SFDU length 216: the sub-
\* template of kind 16 filled in and the label written
C24_LabelledAnyway ==
    /\ MultiObservation
    /\ dataTypes = <<16>>
    /\ sfdu_list[1].sfdu_length = Dt17Length
    /\ pc = "written"
    /\ labelFile.written

-----------------------------------------------------------------------------
(* Properties of loading and writing, checked under SpecStore.             *)

\* the text cut after every '\n', with no character changed
RECURSIVE RawLines(_)
RawLines(text) ==
    IF text = <<>> THEN <<>>
    ELSE LET hits == {i \in 1..Len(text) : text[i] = "\n"}
         IN  IF hits = {} THEN <<text>>
             ELSE <<SubSeq(text, 1, Min(hits))>>
                     \o RawLines(SubSeq(text, Min(hits) + 1, Len(text)))

\* C17: a template loaded and written back with no mutation in between
\* gives a file with the template's lines, each with its original
\* terminator: the loaded lines are the lines of the file and the text
\* written is the text of the file.
C17_LoadWriteVerbatim ==
    /\ pc \in {"loaded", "stored"} => Template = RawLines(templateFile)
    /\ pc = "stored" => labelFile.text = templateFile

-----------------------------------------------------------------------------
(* Properties of the inventory update, checked under SpecInventory.        *)

\* the record count the collection label states
LabelCount(d) == int(read(d, Records, "first").ret).val

\* C19: with the keep option the records the collection CSV held before
\* the run are still in it, in front, once the run has rewritten the CSV,
\* and the run ends with one record per input label after them and the
\* label's count at the previous count plus their number; without the
\* option the CSV ends holding exactly the new records and the count is
\* their number.
C19_InventoryKeep ==
    /\ ( /\ inventory.keep
         /\ pc \in {"label", "written"} \/ failure = "NameError" ) =>
          /\ Len(inventory.csv) >= Len(inventory.old)
          /\ SubSeq(inventory.csv, 1, Len(inventory.old)) = inventory.old
    /\ pc = "written" =>
          IF inventory.keep
          THEN /\ inventory.csv = inventory.old \o NewRecords(inventory.ids)
               /\ LabelCount(Template)
                     = Len(inventory.old) + Len(inventory.ids)
          ELSE /\ inventory.csv = NewRecords(inventory.ids)
               /\ LabelCount(Template) = Len(inventory.ids)

-----------------------------------------------------------------------------
(* Properties of util.label_filename, checked under SpecPath.              *)

\* the directory a path lies in, as an absolute path ("//" is "/")
DirOf(path) ==
    LET head == pathHead(abspath(path))
    IN  IF head # <<>> /\ \A i \in 1..Len(head) : head[i] = "/"
        THEN <<"/">>
        ELSE head

\* a file name without its extension: the text before its last '.', the
\* whole name when it has no '.' after its first character
Stem(name) ==
    IF rfind(name, ".") <= 0 THEN name ELSE slice(name, 0, rfind(name, "."))

\* the path names a file whose name starts with a letter
NamesFile(path) == basename(path) # <<>> /\ basename(path)[1] = "a"

\* C18: the derived label path is in the directory of the data file, and
\* its name is the data file's name with only the final extension replaced
\* by '.xml'.
C18_LabelPath ==
    (pc = "derived" /\ NamesFile(filename)) =>
        /\ DirOf(labelFile.path) = DirOf(filename)
        /\ basename(labelFile.path) = Stem(basename(filename)) \o XmlExtension

-----------------------------------------------------------------------------
(* Properties of the layout assembly, checked under SpecFill.              *)

\* the bytes of the first n kinds processed: the sum of the record length
\* their sub-template files declare times their record count
RECURSIVE BytesOf(_)
BytesOf(n) ==
    IF n = 0 THEN 0
    ELSE BytesOf(n - 1)
            + recordLength[dataTypes[n]] * numberDataTypes[dataTypes[n]]

\* the offset field of a filled sub-template, as a number
OffsetIn(lines) == int(read(lines, Offset, "first").ret)

\* C6: the byte offset written into the sub-template of each kind processed
\* is the sum of recordLength * recordCount over the kinds processed before
\* it, 0 for the first.
C6_OffsetLaw ==
    /\ \A j \in 1..Len(log) :
          /\ log[j].kind = dataTypes[j]
          /\ OffsetIn(log[j].lines) = [exc |-> "none", val |-> BytesOf(j - 1)]
    /\ log # <<>> =>
          tableTemplate[log[Len(log)].kind] = log[Len(log)].lines

\* three kinds filled: 5 records of 20 bytes, 100 of 8 and a third kind, at
\* offsets 0, 100 and 900
C6_Witness ==
    /\ pc = "filled"
    /\ dataTypes = <<2, 5, 17>>
    /\ recordLength[2] = 20 /\ numberDataTypes[2] = 5
    /\ recordLength[5] = 8 /\ numberDataTypes[5] = 100
    /\ read(tableTemplate[2], Offset, "first").ret.val = <<"0">>
    /\ read(tableTemplate[5], Offset, "first").ret.val = <<"1", "0", "0">>
    /\ read(tableTemplate[17], Offset, "first").ret.val = <<"9", "0", "0">>
    /\ \E i \in 1..Len(Template) :
          In(Offset, Template[i]) /\ foundValue(Template[i]) = <<"9", "0", "0">>

\* the bytes of the present kinds numbered below k
RECURSIVE BytesBelow(_, _)
BytesBelow(k, n) ==
    IF n = 0 THEN 0
    ELSE BytesBelow(k, n - 1)
            + IF dataTypes[n] < k
              THEN recordLength[dataTypes[n]] * numberDataTypes[dataTypes[n]]
              ELSE 0

\* C7: the kinds are processed in ascending numeric order whatever order the
\* collaborator lists them in, so the offset of a kind is the bytes of the
\* present kinds numbered below it.
C7_AscendingOrder ==
    /\ \A j \in 1..(Len(log) - 1) : log[j].kind < log[j + 1].kind
    /\ \A j \in 1..Len(log) :
          log[j].offset = BytesBelow(log[j].kind, Len(dataTypes))

\* the places in the label where the lines of kind k's sub-template stand
CopiesOf(k) ==
    LET sub == tableTemplate[k]
    IN  {p \in 1..(Len(Template) - Len(sub) + 1) :
            SubSeq(Template, p, p + Len(sub) - 1) = sub}

\* the label template has the closing marker its first insertion needs, and
\* the sub-templates carry the wrapper
WellFormedConfig ==
    /\ \A k \in Range(dataTypes) : hasTableBinary(tableTemplate[k])
    /\ \E i \in 1..Len(Template) : In(EndFile, Template[i])
    /\ \E i \in 1..Len(Template) : In(EndTableBinary, Template[i])

\* C8: after layout assembly the label holds exactly one copy of the filled
\* sub-template of every present kind, its lines contiguous, the copies in
\* ascending order of kind.
C8_OneCopyPerKindAscending ==
    (pc = "filled" /\ WellFormedConfig) =>
        /\ \A k \in Range(dataTypes) : Cardinality(CopiesOf(k)) = 1
        /\ \A k1, k2 \in Range(dataTypes) :
              k1 < k2 =>
                \A p1 \in CopiesOf(k1), p2 \in CopiesOf(k2) :
                    p1 + Len(tableTemplate[k1]) <= p2

\* the marker the insertion is to be anchored on, from the label as it was
ExpectedMarker ==
    IF \E i \in 1..Len(hostBefore) : In(TableBinary, hostBefore[i])
    THEN EndTableBinary
    ELSE EndFile

\* C9 as stated: the new lines are placed immediately before the line of
\* the closing marker (</Table_Binary> when the label has the wrapper,
\* </File> when it has not).
C9_BeforeClosingMarker ==
    (log # <<>> /\ matches(hostBefore, ExpectedMarker) # {}) =>
        LET new == log[Len(log)].lines
        IN  \E p \in 1..(Len(Template) - Len(new)) :
                /\ SubSeq(Template, p, p + Len(new) - 1) = new
                /\ SubSeq(Template, 1, p - 1)
                      \o SubSeq(Template, p + Len(new), Len(Template))
                      = hostBefore
                /\ In(ExpectedMarker, Template[p + Len(new)])

\* C9 (amended): the new lines are placed immediately after the last line
\* containing the closing marker: </Table_Binary> when some line of the
\* label contains <Table_Binary>, </File> when none does; when no line
\* contains that closing marker nothing is inserted.
C9_AfterClosingMarker ==
    log # <<>> =>
        LET new == log[Len(log)].lines
            hit == matches(hostBefore, ExpectedMarker)
        IN  IF hit = {}
            THEN Template = hostBefore
            ELSE Template = SubSeq(hostBefore, 1, Max(hit)) \o new
                              \o SubSeq(hostBefore, Max(hit) + 1, Len(hostBefore))

\* the first sub-template put into a label that has the wrapper in front of
\* its </File>: it stands between the </Table_Binary> line and the </File>
\* line
C9_Witness ==
    /\ Len(log) = 1
    /\ hasTableBinary(hostBefore)
    /\ \E a \in 1..(Len(hostBefore) - 1) :
          /\ hostBefore[a] = HostEndTableBinary
          /\ hostBefore[a + 1] = HostEndFile
          /\ Template[a] = HostEndTableBinary
          /\ SubSeq(Template, a + 1, a + Len(log[1].lines)) = log[1].lines
          /\ Template[a + Len(log[1].lines) + 1] = HostEndFile

====
